---- MODULE Spec2Model ----
(***************************************************************************)
(* A model of package logger (logger.go): the namespace registry guarded   *)
(* by loggersLock, the environment-variable level resolution, and the      *)
(* Logger methods AddHandler, SetLevel, Debug, Info, Warn, Error, Fatal    *)
(* and Write, executed by goroutines that interleave statement by          *)
(* statement.                                                               *)
(*                                                                         *)
(* A Go string is a sequence of one-character strings, so that ToLower,    *)
(* ToUpper, Replace, TrimRight and Sprintf are computed, not assumed.      *)
(***************************************************************************)
EXTENDS Integers, Sequences, FiniteSets, TLC

VARIABLES
    environ,        \* the process environment read by os.Getenv
    defaultCaps,    \* the methods DefaultHandler implements
    prefix,         \* defaultEnvironmentVariablePrefix
    loggers,        \* the registry: lower-cased namespace -> *Logger
    heap,           \* the Logger objects allocated so far; a *Logger is an index
    DefaultLogger,  \* the package-level DefaultLogger
    lock,           \* loggersLock: the goroutine holding it, or NoThread
    exited,         \* os.Exit was called
    exitCode,       \* the status os.Exit was called with
    pc,             \* per goroutine: the statement it is at
    frame,          \* per goroutine: the arguments and locals of its call
    out,            \* per goroutine: the handler methods its call has invoked
    ret,            \* per goroutine: what its call returned
    calls,          \* the number of API calls started
    concurrent,     \* a goroutine other than the main one has made a call
    lastInit        \* per handler: the arguments of the last Init it received

vars == <<environ, defaultCaps, prefix, loggers, heap, DefaultLogger, lock,
          exited, exitCode, pc, frame, out, ret, calls, concurrent, lastInit>>

-----------------------------------------------------------------------------
(* Bounds *)

\* Logger objects ever allocated (the root made at package initialisation included).
MaxLoggers == 3
\* Handlers attached to one Logger (its DefaultHandler included).
MaxHandlers == 3
\* API calls started in a run in which one goroutine makes every call.
MaxCalls == 3
\* API calls started in a run in which a second goroutine makes calls too.
MaxConcurrentCalls == 2

Threads == {"g1", "g2"}
MainThread == "g1"
NoThread == "none"

-----------------------------------------------------------------------------
(* Strings *)

LowerCh == <<"a","b","c","d","e","f","g","h","i","j","k","l","m",
             "n","o","p","q","r","s","t","u","v","w","x","y","z">>
UpperCh == <<"A","B","C","D","E","F","G","H","I","J","K","L","M",
             "N","O","P","Q","R","S","T","U","V","W","X","Y","Z">>

ToLowerCh(c) ==
    IF \E i \in DOMAIN UpperCh : UpperCh[i] = c
    THEN LowerCh[CHOOSE i \in DOMAIN UpperCh : UpperCh[i] = c]
    ELSE c

ToUpperCh(c) ==
    IF \E i \in DOMAIN LowerCh : LowerCh[i] = c
    THEN UpperCh[CHOOSE i \in DOMAIN LowerCh : LowerCh[i] = c]
    ELSE c

\* strings.ToLower
ToLower(s) == [i \in 1..Len(s) |-> ToLowerCh(s[i])]

\* strings.ToUpper
ToUpper(s) == [i \in 1..Len(s) |-> ToUpperCh(s[i])]

\* strings.Replace(s, old, new, -1) for one-character old and new
Replace(s, old, new) == [i \in 1..Len(s) |-> IF s[i] = old THEN new ELSE s[i]]

\* strings.EqualFold on ASCII letters
EqualFold(a, b) == ToLower(a) = ToLower(b)

\* strings.TrimRight(s, cutset): every trailing character of the cutset goes
RECURSIVE TrimRight(_, _)
TrimRight(s, cutset) ==
    IF s # <<>> /\ s[Len(s)] \in cutset
    THEN TrimRight(SubSeq(s, 1, Len(s) - 1), cutset)
    ELSE s

\* fmt.Sprintf(format, v...) for the verb %s, given as many operands as verbs
RECURSIVE Sprintf(_, _)
Sprintf(format, v) ==
    IF format = <<>> THEN <<>>
    ELSE IF Len(format) >= 2 /\ format[1] = "%" /\ format[2] = "s" /\ v # <<>>
         THEN v[1] \o Sprintf(SubSeq(format, 3, Len(format)), Tail(v))
         ELSE <<format[1]>> \o Sprintf(Tail(format), v)

-----------------------------------------------------------------------------
(* Levels *)

LevelNone == 0
LevelError == 1
LevelWarn == 2
LevelInfo == 3
LevelDebug == 4

Levels == LevelNone..LevelDebug

\* A GetLevelByString whose fallback is Warn.
GetLevelByStringDefaultWarn(level) ==
    IF EqualFold(level, <<"d","e","b","u","g">>) THEN LevelDebug
    ELSE IF EqualFold(level, <<"i","n","f","o">>) THEN LevelInfo
    ELSE IF EqualFold(level, <<"w","a","r","n">>) THEN LevelWarn
    ELSE IF EqualFold(level, <<"e","r","r","o","r">>) THEN LevelError
    ELSE IF EqualFold(level, <<"n","o","n","e">>) THEN LevelNone
    ELSE LevelWarn

\* GetLevelByString
GetLevelByString(level) ==
    IF EqualFold(level, <<"d","e","b","u","g">>) THEN LevelDebug
    ELSE IF EqualFold(level, <<"i","n","f","o">>) THEN LevelInfo
    ELSE IF EqualFold(level, <<"w","a","r","n">>) THEN LevelWarn
    ELSE IF EqualFold(level, <<"e","r","r","o","r">>) THEN LevelError
    ELSE IF EqualFold(level, <<"n","o","n","e">>) THEN LevelNone
    ELSE LevelInfo

-----------------------------------------------------------------------------
(* Environment *)

SEVERINO_LOGGER == <<"S","E","V","E","R","I","N","O","_","L","O","G","G","E","R">>
\* a prefix an application sets with SetDefaultEnvironmentVariablePrefix
APP == <<"A","P","P">>
Prefixes == {SEVERINO_LOGGER, APP}

\* os.Getenv: the empty string for a variable that is not set
Getenv(env, key) == IF key \in DOMAIN env THEN env[key] ELSE <<>>

\* SEVERINO_LOGGER=warn SEVERINO_LOGGER_A=DEBUG APP=bogus APP_B_C=none
EnvOverrides ==
    (SEVERINO_LOGGER :> <<"w","a","r","n">>)
    @@ (SEVERINO_LOGGER \o <<"_","A">> :> <<"D","E","B","U","G">>)
    @@ (APP :> <<"b","o","g","u","s">>)
    @@ (APP \o <<"_","B","_","C">> :> <<"n","o","n","e">>)

\* SEVERINO_LOGGER=none SEVERINO_LOGGER_B_C=bogus APP=Error APP_A=debug
EnvQuiet ==
    (SEVERINO_LOGGER :> <<"n","o","n","e">>)
    @@ (SEVERINO_LOGGER \o <<"_","B","_","C">> :> <<"b","o","g","u","s">>)
    @@ (APP :> <<"E","r","r","o","r">>)
    @@ (APP \o <<"_","A">> :> <<"d","e","b","u","g">>)

Envs == {EnvOverrides, EnvQuiet}

\* HOME=/ : neither SEVERINO_LOGGER nor APP is set
EnvUnset == (<<"H","O","M","E">> :> <<"/">>)

\* SEVERINO_LOGGER=verbose
EnvUnknown == (SEVERINO_LOGGER :> <<"v","e","r","b","o","s","e">>)

\* The environments a run that only parses level names starts in.
LevelEnvs == Envs \cup {EnvUnset, EnvUnknown}

\* A variant of getEnvVarLevel in which the blanket variable wins when it is set.
getEnvVarLevelBlanketFirst(env, currentPrefix, namespace) ==
    LET p == IF namespace # <<>> THEN currentPrefix \o <<"_">> ELSE currentPrefix
        ns == IF namespace # <<>>
              THEN Replace(Replace(ToUpper(namespace), "-", "_"), ".", "_")
              ELSE namespace
        level == Getenv(env, currentPrefix)
    IN  ToLower(IF level = <<>> THEN Getenv(env, p \o ns) ELSE level)

\* A variant of getEnvVarLevel that reads the initial prefix, not the current one.
getEnvVarLevelFixedPrefix(env, currentPrefix, namespace) ==
    LET p == IF namespace # <<>> THEN SEVERINO_LOGGER \o <<"_">> ELSE SEVERINO_LOGGER
        ns == IF namespace # <<>>
              THEN Replace(Replace(ToUpper(namespace), "-", "_"), ".", "_")
              ELSE namespace
        level == Getenv(env, p \o ns)
    IN  ToLower(IF level = <<>> THEN Getenv(env, SEVERINO_LOGGER) ELSE level)

\* getEnvVarLevel
getEnvVarLevel(env, currentPrefix, namespace) ==
    LET p == IF namespace # <<>> THEN currentPrefix \o <<"_">> ELSE currentPrefix
        ns == IF namespace # <<>>
              THEN Replace(Replace(ToUpper(namespace), "-", "_"), ".", "_")
              ELSE namespace
        level == Getenv(env, p \o ns)
    IN  ToLower(IF level = <<>> THEN Getenv(env, currentPrefix) ELSE level)

-----------------------------------------------------------------------------
(* Handlers *)

Methods == {"Init", "Debug", "Info", "Warn", "Error", "Fatal"}

\* What DefaultHandler may implement: every method, or every method but Init.
DefaultHandlerCaps == {Methods, Methods \ {"Init"}}

\* &DefaultHandler{}: a new handler object for the Logger being constructed
NewDefaultHandler(l) == [type |-> "DefaultHandler", inst |-> l]

\* Handlers an application attaches: one that implements Init, Info and Fatal,
\* one that implements Debug, Warn and Error.
InitInfoFatalSink == [type |-> "InitInfoFatalSink", inst |-> 0]
DebugWarnErrorSink == [type |-> "DebugWarnErrorSink", inst |-> 0]
UserHandlers == {InitInfoFatalSink, DebugWarnErrorSink}
NoHandler == [type |-> "none", inst |-> 0]

\* handler.(XInterface): whether the handler's type has method m
Implements(h, m) ==
    CASE h.type = "DefaultHandler" -> m \in defaultCaps
      [] h.type = "InitInfoFatalSink" -> m \in {"Init", "Info", "Fatal"}
      [] h.type = "DebugWarnErrorSink" -> m \in {"Debug", "Warn", "Error"}
      [] OTHER -> FALSE

\* What a handler keeps of an Init(namespace, level) call: the arguments.
NoInits == [h \in {} |-> 0]
Received(inits, h, namespace, level) ==
    (h :> [namespace |-> namespace, level |-> level]) @@ inits

\* One call of a handler method, with the arguments it was given.
InitCall(h, namespace, level) ==
    [h |-> h, method |-> "Init", namespace |-> namespace, level |-> level, msg |-> <<>>]
MsgCall(h, method, msg) ==
    [h |-> h, method |-> method, namespace |-> <<>>, level |-> 0, msg |-> msg]

-----------------------------------------------------------------------------
(* Logger *)

\* Severities with Fatal gated by nothing, as when LevelError was the lowest level.
SeverityFatalUngated(method) ==
    CASE method = "Debug" -> LevelDebug
      [] method = "Info" -> LevelInfo
      [] method = "Warn" -> LevelWarn
      [] method = "Error" -> LevelError
      [] method = "Fatal" -> LevelNone

\* The level each logging method compares the Logger's level with.
Severity(method) ==
    CASE method = "Debug" -> LevelDebug
      [] method = "Info" -> LevelInfo
      [] method = "Warn" -> LevelWarn
      [] method = "Error" -> LevelError
      [] method = "Fatal" -> LevelError

\* A gate that also drops the messages of the configured level itself.
AcceptsStrictlyAbove(level, severity) == level > severity

\* if logger.Level < LevelX { return }
Accepts(level, severity) == ~(level < severity)

\* A dispatch loop that stops at the first handler lacking the method.
DispatchStops(h, method) == ~Implements(h, method)

\* The dispatch loops have no break: a handler lacking the method is skipped.
DispatchBreaks(h, method) == FALSE

\* An AddHandler that reads and writes the list in one step, as under a
\* per-Logger lock.
AppendBaseCurrent(current, read) == current

\* logger.Handlers = append(logger.Handlers, handler): the list appended to is
\* the one the goroutine read, whatever logger.Handlers holds by the time of the
\* assignment; nothing orders the two against another goroutine.
AppendBase(current, read) == read

\* An AddHandler that puts the new handler first.
AppendHandlerFirst(hs, handler) == <<handler>> \o hs

\* append(logger.Handlers, handler)
AppendHandler(hs, handler) == Append(hs, handler)

\* A SetLevel that tells no handler.
RangeHandlersNone(hs) == <<>>

\* for _, handler := range logger.Handlers, in SetLevel
RangeHandlers(hs) == hs

\* A SetLevel that leaves the Logger's level as it was.
StoredLevelKept(lg, level) == lg.Level

\* logger.Level = level
StoredLevel(lg, level) == level

\* A Write that removes one trailing newline only.
WriteMessageSuffix(b) ==
    IF b # <<>> /\ b[Len(b)] = "\n" THEN SubSeq(b, 1, Len(b) - 1) ELSE b

\* strings.TrimRight(string(b), "\n")
WriteMessage(b) == TrimRight(b, {"\n"})

\* The namespaces the application asks for: "", "a", "A", "b-c"
Namespaces == {<<>>, <<"a">>, <<"A">>, <<"b","-","c">>}

\* GetLevelByString(getEnvVarLevel(namespace)), worked out once for every
\* environment, prefix and namespace of the model.
ResolvedLevel ==
    [env \in LevelEnvs, p \in Prefixes, namespace \in Namespaces |->
        GetLevelByString(getEnvVarLevel(env, p, namespace))]

\* &Logger{Namespace: namespace}; logger.SetLevel(...); the handler list after
\* logger.AddHandler(&DefaultHandler{}).  resolvedPrefix records the prefix
\* getEnvVarLevel read.
NewLogger(namespace, l) ==
    [Namespace |-> namespace,
     Level |-> ResolvedLevel[environ, prefix, namespace],
     Handlers |-> <<NewDefaultHandler(l)>>,
     resolvedPrefix |-> prefix]

\* A registry keyed by the namespace as given.
RegistryKeyAsGiven(namespace) == namespace

\* namespaceLower := strings.ToLower(namespace)
RegistryKey(namespace) == ToLower(namespace)

\* A lookup that never finds the entry.
RegisteredNever(m, namespaceLower) == FALSE

\* logger, ok := loggers[namespaceLower]
Registered(m, namespaceLower) == namespaceLower \in DOMAIN m

\* A prefix change that leaves the root entry in the registry.
DeleteNothing(m) == m

\* delete(loggers, "")
DeleteRoot(m) == [namespace \in DOMAIN m \ {<<>>} |-> m[namespace]]

\* A scan that never refuses.
ScanNeverFinds(m) == FALSE

\* for namespace := range loggers { if namespace != "" { return errors.New(...) } }
ScanFindsNonRoot(m) == \E namespace \in DOMAIN m : namespace # <<>>

\* A mutex that does not exclude.
LockNotExclusive(t) == TRUE

\* loggersLock.Lock() returns only when no goroutine holds the mutex
LockAvailable(t) == lock = NoThread

\* Deferred unlocks that are never run.
UnlockNever(holder, fn) == holder

\* A setEnvironmentVariablePrefix that returns with the mutex still locked.
UnlockInNamespaceOnly(holder, fn) == IF fn = "Namespace" THEN NoThread ELSE holder

\* defer loggersLock.Unlock(), in Namespace and in setEnvironmentVariablePrefix
Unlock(holder, fn) == NoThread

\* os.Exit(1)
ExitStatus == 1

ErrInUse == "Cannot change prefix because some logs have already been use"
NoError == "nil"

-----------------------------------------------------------------------------
(* Inputs *)

\* "hi" with no operand, "n=%s" with the operand "x"
LogInputs == {[format |-> <<"h","i">>, v |-> <<>>],
              [format |-> <<"n","=","%","s">>, v |-> << <<"x">> >>]}

\* "hi\n", "hi", "hi\n\n"
Payloads == {<<"h","i","\n">>, <<"h","i">>, <<"h","i","\n","\n">>}

LogMethods == {"Debug", "Info", "Warn", "Error", "Fatal"}

\* "debug", "DEBUG", "info", "Info", "warn", "WaRn", "error", "ERROR", "none",
\* "nOnE", "", "bogus", "warning", "debu", "trace"
LevelNames ==
    {<<"d","e","b","u","g">>, <<"D","E","B","U","G">>,
     <<"i","n","f","o">>, <<"I","n","f","o">>,
     <<"w","a","r","n">>, <<"W","a","R","n">>,
     <<"e","r","r","o","r">>, <<"E","R","R","O","R">>,
     <<"n","o","n","e">>, <<"n","O","n","E">>,
     <<>>, <<"b","o","g","u","s">>, <<"w","a","r","n","i","n","g">>,
     <<"d","e","b","u">>, <<"t","r","a","c","e">>}

-----------------------------------------------------------------------------
(* Goroutines *)

EmptyFrame ==
    [op |-> "none", self |-> 0, name |-> <<>>, newPrefix |-> <<>>, level |-> 0,
     handler |-> NoHandler, method |-> "none", format |-> <<>>, v |-> <<>>,
     bytes |-> <<>>, msg |-> <<>>, hs |-> <<>>, i |-> 0, levelName |-> <<>>]

NoReturn == [logger |-> 0, err |-> NoError, n |-> 0, level |-> 0]

Allocated == 1..Len(heap)

\* The Loggers the application can hold a *Logger to: those Namespace has
\* returned, and DefaultLogger.  A Logger that Namespace is still constructing
\* under the lock has not been returned to anyone.
References ==
    {l \in Allocated :
        ~\E t \in Threads : pc[t] \in {"ns_init", "ns_unlock"} /\ frame[t].self = l}

\* Namespace calls, and prefix changes (which call Namespace("")), that may yet
\* construct a Logger.
MayAllocate(t) ==
    /\ pc[t] \in {"ns_lock", "ns_lookup", "sp_lock", "sp_scan", "sp_set", "sp_unlock"}
    /\ \/ frame[t].op = "SetDefaultEnvironmentVariablePrefix"
       \/ RegistryKey(frame[t].name) = <<>>
       \/ RegistryKey(frame[t].name) \notin DOMAIN loggers

Room == Len(heap) + Cardinality({t \in Threads : MayAllocate(t)}) < MaxLoggers

\* A run is one goroutine making up to MaxCalls calls, or several goroutines
\* making up to MaxConcurrentCalls calls between them.
Budget(t) == IF concurrent \/ t # MainThread THEN MaxConcurrentCalls ELSE MaxCalls

\* A goroutine calls the API when it has made no call yet or its last call has
\* returned; it keeps the result of that call until its next one.
Idle(t) == pc[t] \in {"idle", "done"} /\ ~exited /\ calls < Budget(t)

Start(t, f, at) ==
    /\ frame' = [frame EXCEPT ![t] = f]
    /\ pc' = [pc EXCEPT ![t] = at]
    /\ calls' = calls + 1
    /\ concurrent' = (concurrent \/ t # MainThread)
    /\ out' = [out EXCEPT ![t] = <<>>]
    /\ ret' = [ret EXCEPT ![t] = NoReturn]
    /\ UNCHANGED <<environ, defaultCaps, prefix, loggers, heap, DefaultLogger,
                   lock, exited, exitCode, lastInit>>

Init ==
    /\ environ \in Envs
    /\ defaultCaps \in DefaultHandlerCaps
    /\ prefix = SEVERINO_LOGGER
    /\ heap = <<NewLogger(<<>>, 1)>>
    /\ loggers = (RegistryKey(<<>>) :> 1)
    /\ DefaultLogger = 1
    /\ lock = NoThread
    /\ exited = FALSE
    /\ exitCode = 0
    /\ pc = [t \in Threads |-> "idle"]
    /\ frame = [t \in Threads |-> EmptyFrame]
    /\ out = [t \in Threads |-> <<>>]
    /\ ret = [t \in Threads |-> NoReturn]
    /\ calls = 0
    /\ concurrent = FALSE
    /\ lastInit = IF Implements(NewDefaultHandler(1), "Init")
                  THEN Received(NoInits, NewDefaultHandler(1), <<>>, heap[1].Level)
                  ELSE NoInits

\* Package initialisation in an environment that may set neither prefix variable.
InitLevels ==
    /\ environ \in LevelEnvs
    /\ defaultCaps \in DefaultHandlerCaps
    /\ prefix = SEVERINO_LOGGER
    /\ heap = <<NewLogger(<<>>, 1)>>
    /\ loggers = (RegistryKey(<<>>) :> 1)
    /\ DefaultLogger = 1
    /\ lock = NoThread
    /\ exited = FALSE
    /\ exitCode = 0
    /\ pc = [t \in Threads |-> "idle"]
    /\ frame = [t \in Threads |-> EmptyFrame]
    /\ out = [t \in Threads |-> <<>>]
    /\ ret = [t \in Threads |-> NoReturn]
    /\ calls = 0
    /\ concurrent = FALSE
    /\ lastInit = IF Implements(NewDefaultHandler(1), "Init")
                  THEN Received(NoInits, NewDefaultHandler(1), <<>>, heap[1].Level)
                  ELSE NoInits

-----------------------------------------------------------------------------
(* Calls *)

\* Namespace(name)
CallNamespace(t) ==
    \E name \in Namespaces :
        /\ Idle(t)
        /\ \/ RegistryKey(name) # <<>> /\ RegistryKey(name) \in DOMAIN loggers
           \/ Room
        /\ Start(t, [EmptyFrame EXCEPT !.op = "Namespace", !.name = name], "ns_lock")

\* SetDefaultEnvironmentVariablePrefix(p)
CallSetPrefix(t) ==
    \E p \in Prefixes :
        /\ Idle(t)
        /\ Room
        /\ Start(t, [EmptyFrame EXCEPT !.op = "SetDefaultEnvironmentVariablePrefix",
                                       !.newPrefix = p], "sp_lock")

\* logger.AddHandler(h), or AddHandler(h) when logger is DefaultLogger
CallAddHandler(t) ==
    \E l \in References, h \in UserHandlers :
        /\ Idle(t)
        /\ Len(heap[l].Handlers) < MaxHandlers
        /\ Start(t, [EmptyFrame EXCEPT !.op = "AddHandler", !.self = l,
                                       !.handler = h], "ah_read")

\* logger.SetLevel(level), or SetLevel(level) when logger is DefaultLogger
CallSetLevel(t) ==
    \E l \in References, level \in Levels :
        /\ Idle(t)
        /\ Start(t, [EmptyFrame EXCEPT !.op = "SetLevel", !.self = l,
                                       !.level = level], "sl_set")

\* logger.Debug/Info/Warn/Error/Fatal(format, v...), or the package-level function
CallLog(t) ==
    \E l \in References, m \in LogMethods, in \in LogInputs :
        /\ Idle(t)
        /\ Start(t, [EmptyFrame EXCEPT !.op = m, !.method = m, !.self = l,
                                       !.format = in.format, !.v = in.v], "log_gate")

\* logger.Write(b): logger.Info("%s", strings.TrimRight(string(b), "\n"))
CallWrite(t) ==
    \E l \in References, b \in Payloads :
        /\ Idle(t)
        /\ Start(t, [EmptyFrame EXCEPT !.op = "Write", !.method = "Info", !.self = l,
                                       !.bytes = b, !.format = <<"%", "s">>,
                                       !.v = <<WriteMessage(b)>>], "log_gate")

\* GetLevelByString(level)
CallGetLevelByString(t) ==
    \E level \in LevelNames :
        /\ Idle(t)
        /\ Start(t, [EmptyFrame EXCEPT !.op = "GetLevelByString",
                                       !.levelName = level], "gl_eval")

-----------------------------------------------------------------------------
(* The registry *)

\* loggersLock.Lock()
Lock(t) ==
    /\ pc[t] \in {"ns_lock", "sp_lock"}
    /\ ~exited
    /\ LockAvailable(t)
    /\ lock' = t
    /\ pc' = [pc EXCEPT ![t] = IF pc[t] = "ns_lock" THEN "ns_lookup" ELSE "sp_scan"]
    /\ UNCHANGED <<environ, defaultCaps, prefix, loggers, heap, DefaultLogger,
                   exited, exitCode, frame, out, ret, calls, concurrent, lastInit>>

\* Namespace: the lookup; when it misses, the Logger is constructed, given its
\* level (SetLevel finds no handler yet) and its DefaultHandler is appended.
NsLookup(t) ==
    /\ pc[t] = "ns_lookup"
    /\ ~exited
    /\ LET namespaceLower == RegistryKey(frame[t].name) IN
        IF Registered(loggers, namespaceLower)
        THEN /\ ret' = [ret EXCEPT ![t] = [NoReturn EXCEPT !.logger = loggers[namespaceLower]]]
             /\ pc' = [pc EXCEPT ![t] = "ns_unlock"]
             /\ UNCHANGED <<heap, frame>>
        ELSE /\ heap' = Append(heap, NewLogger(frame[t].name, Len(heap) + 1))
             /\ frame' = [frame EXCEPT ![t].self = Len(heap) + 1]
             /\ pc' = [pc EXCEPT ![t] = "ns_init"]
             /\ UNCHANGED ret
    /\ UNCHANGED <<environ, defaultCaps, prefix, loggers, DefaultLogger, lock,
                   exited, exitCode, out, calls, concurrent, lastInit>>

\* Namespace: AddHandler calls the DefaultHandler's Init when it has one; then
\* loggers[namespaceLower] = logger.
NsInit(t) ==
    /\ pc[t] = "ns_init"
    /\ ~exited
    /\ LET l == frame[t].self
           h == heap[l].Handlers[Len(heap[l].Handlers)]
           namespaceLower == RegistryKey(frame[t].name)
       IN  /\ out' = [out EXCEPT ![t] =
                        IF Implements(h, "Init")
                        THEN Append(@, InitCall(h, heap[l].Namespace, heap[l].Level))
                        ELSE @]
           /\ lastInit' = IF Implements(h, "Init")
                          THEN Received(lastInit, h, heap[l].Namespace, heap[l].Level)
                          ELSE lastInit
           /\ loggers' = [k \in DOMAIN loggers \cup {namespaceLower} |->
                            IF k = namespaceLower THEN l ELSE loggers[k]]
           /\ ret' = [ret EXCEPT ![t] = [NoReturn EXCEPT !.logger = l]]
    /\ pc' = [pc EXCEPT ![t] = "ns_unlock"]
    /\ UNCHANGED <<environ, defaultCaps, prefix, heap, DefaultLogger, lock,
                   exited, exitCode, frame, calls, concurrent>>

\* Namespace: the deferred loggersLock.Unlock(), and the return
NsUnlock(t) ==
    /\ pc[t] = "ns_unlock"
    /\ ~exited
    /\ lock' = Unlock(lock, "Namespace")
    /\ pc' = [pc EXCEPT ![t] =
                IF frame[t].op = "SetDefaultEnvironmentVariablePrefix"
                THEN "sp_assign" ELSE "done"]
    /\ UNCHANGED <<environ, defaultCaps, prefix, loggers, heap, DefaultLogger,
                   exited, exitCode, frame, out, ret, calls, concurrent, lastInit>>

\* setEnvironmentVariablePrefix: the scan of the registry's keys
SpScan(t) ==
    /\ pc[t] = "sp_scan"
    /\ ~exited
    /\ IF ScanFindsNonRoot(loggers)
       THEN /\ ret' = [ret EXCEPT ![t] = [NoReturn EXCEPT !.err = ErrInUse]]
            /\ pc' = [pc EXCEPT ![t] = "sp_unlock"]
       ELSE /\ pc' = [pc EXCEPT ![t] = "sp_set"]
            /\ UNCHANGED ret
    /\ UNCHANGED <<environ, defaultCaps, prefix, loggers, heap, DefaultLogger, lock,
                   exited, exitCode, frame, out, calls, concurrent, lastInit>>

\* setEnvironmentVariablePrefix: delete(loggers, ""); the prefix is assigned
SpSet(t) ==
    /\ pc[t] = "sp_set"
    /\ ~exited
    /\ loggers' = DeleteRoot(loggers)
    /\ prefix' = frame[t].newPrefix
    /\ ret' = [ret EXCEPT ![t] = NoReturn]
    /\ pc' = [pc EXCEPT ![t] = "sp_unlock"]
    /\ UNCHANGED <<environ, defaultCaps, heap, DefaultLogger, lock,
                   exited, exitCode, frame, out, calls, concurrent, lastInit>>

\* setEnvironmentVariablePrefix: the deferred unlock; the caller returns the
\* error, or goes on to Namespace("")
SpUnlock(t) ==
    /\ pc[t] = "sp_unlock"
    /\ ~exited
    /\ lock' = Unlock(lock, "setEnvironmentVariablePrefix")
    /\ pc' = [pc EXCEPT ![t] = IF ret[t].err # NoError THEN "done" ELSE "ns_lock"]
    /\ UNCHANGED <<environ, defaultCaps, prefix, loggers, heap, DefaultLogger,
                   exited, exitCode, frame, out, ret, calls, concurrent, lastInit>>

\* SetDefaultEnvironmentVariablePrefix: DefaultLogger = Namespace(""); return nil
SpAssign(t) ==
    /\ pc[t] = "sp_assign"
    /\ ~exited
    /\ DefaultLogger' = ret[t].logger
    /\ ret' = [ret EXCEPT ![t] = NoReturn]
    /\ pc' = [pc EXCEPT ![t] = "done"]
    /\ UNCHANGED <<environ, defaultCaps, prefix, loggers, heap, lock,
                   exited, exitCode, frame, out, calls, concurrent, lastInit>>

-----------------------------------------------------------------------------
(* Logger methods *)

\* What a call returns: Write returns len(b), nil; the other methods nothing.
Returned(f) == IF f.op = "Write" THEN [NoReturn EXCEPT !.n = Len(f.bytes)] ELSE NoReturn

\* Where a dispatch loop leaves to: Fatal goes on to os.Exit(1).
AfterLoop(f) == IF f.op = "Fatal" THEN "exit" ELSE "done"

\* AddHandler: logger.Handlers is read for append
AhRead(t) ==
    /\ pc[t] = "ah_read"
    /\ ~exited
    /\ frame' = [frame EXCEPT ![t].hs = heap[frame[t].self].Handlers]
    /\ pc' = [pc EXCEPT ![t] = "ah_write"]
    /\ UNCHANGED <<environ, defaultCaps, prefix, loggers, heap, DefaultLogger, lock,
                   exited, exitCode, out, ret, calls, concurrent, lastInit>>

\* AddHandler: logger.Handlers = append(..., handler)
AhWrite(t) ==
    /\ pc[t] = "ah_write"
    /\ ~exited
    /\ heap' = [heap EXCEPT ![frame[t].self].Handlers =
                            AppendHandler(AppendBase(heap[frame[t].self].Handlers,
                                                     frame[t].hs),
                                          frame[t].handler)]
    /\ pc' = [pc EXCEPT ![t] = IF Implements(frame[t].handler, "Init") THEN "ah_init" ELSE "done"]
    /\ UNCHANGED <<environ, defaultCaps, prefix, loggers, DefaultLogger, lock,
                   exited, exitCode, frame, out, ret, calls, concurrent, lastInit>>

\* AddHandler: initHandler.Init(logger.Namespace, logger.Level)
AhInit(t) ==
    /\ pc[t] = "ah_init"
    /\ ~exited
    /\ LET lg == heap[frame[t].self] IN
        /\ out' = [out EXCEPT ![t] = Append(@, InitCall(frame[t].handler, lg.Namespace, lg.Level))]
        /\ lastInit' = Received(lastInit, frame[t].handler, lg.Namespace, lg.Level)
    /\ pc' = [pc EXCEPT ![t] = "done"]
    /\ UNCHANGED <<environ, defaultCaps, prefix, loggers, heap, DefaultLogger, lock,
                   exited, exitCode, frame, ret, calls, concurrent>>

\* SetLevel: logger.Level = level; the range expression logger.Handlers is evaluated
SlSet(t) ==
    /\ pc[t] = "sl_set"
    /\ ~exited
    /\ LET l == frame[t].self IN
        /\ heap' = [heap EXCEPT ![l].Level = StoredLevel(heap[l], frame[t].level)]
        /\ frame' = [frame EXCEPT ![t].hs = RangeHandlers(heap[l].Handlers), ![t].i = 1]
        /\ pc' = [pc EXCEPT ![t] = IF RangeHandlers(heap[l].Handlers) = <<>>
                                   THEN "done" ELSE "sl_loop"]
    /\ UNCHANGED <<environ, defaultCaps, prefix, loggers, DefaultLogger, lock,
                   exited, exitCode, out, ret, calls, concurrent, lastInit>>

\* SetLevel: one iteration of the loop over the handlers
SlLoop(t) ==
    /\ pc[t] = "sl_loop"
    /\ ~exited
    /\ LET f == frame[t]
           h == f.hs[f.i]
           lg == heap[f.self]
       IN  /\ out' = [out EXCEPT ![t] =
                        IF Implements(h, "Init")
                        THEN Append(@, InitCall(h, lg.Namespace, lg.Level))
                        ELSE @]
           /\ lastInit' = IF Implements(h, "Init")
                          THEN Received(lastInit, h, lg.Namespace, lg.Level)
                          ELSE lastInit
           /\ frame' = [frame EXCEPT ![t].i = f.i + 1]
           /\ pc' = [pc EXCEPT ![t] = IF f.i = Len(f.hs) THEN "done" ELSE "sl_loop"]
    /\ UNCHANGED <<environ, defaultCaps, prefix, loggers, heap, DefaultLogger, lock,
                   exited, exitCode, ret, calls, concurrent>>

\* Debug, Info, Warn, Error, Fatal: the level test; then msg := fmt.Sprintf(format,
\* v...) and the range expression logger.Handlers is evaluated
LogGate(t) ==
    /\ pc[t] = "log_gate"
    /\ ~exited
    /\ LET f == frame[t]
           lg == heap[f.self]
       IN  IF ~Accepts(lg.Level, Severity(f.method))
           THEN /\ pc' = [pc EXCEPT ![t] = "done"]
                /\ ret' = [ret EXCEPT ![t] = Returned(f)]
                /\ UNCHANGED frame
           ELSE /\ frame' = [frame EXCEPT ![t].msg = Sprintf(f.format, f.v),
                                          ![t].hs = lg.Handlers, ![t].i = 1]
                /\ pc' = [pc EXCEPT ![t] = IF lg.Handlers = <<>> THEN AfterLoop(f) ELSE "log_loop"]
                /\ ret' = [ret EXCEPT ![t] = IF lg.Handlers = <<>> THEN Returned(f) ELSE @]
    /\ UNCHANGED <<environ, defaultCaps, prefix, loggers, heap, DefaultLogger, lock,
                   exited, exitCode, out, calls, concurrent, lastInit>>

\* Debug, Info, Warn, Error, Fatal: one iteration of the loop over the handlers
LogLoop(t) ==
    /\ pc[t] = "log_loop"
    /\ ~exited
    /\ LET f == frame[t]
           h == f.hs[f.i]
           last == f.i = Len(f.hs) \/ DispatchBreaks(h, f.method)
       IN  /\ out' = [out EXCEPT ![t] =
                        IF Implements(h, f.method)
                        THEN Append(@, MsgCall(h, f.method, f.msg))
                        ELSE @]
           /\ frame' = [frame EXCEPT ![t].i = f.i + 1]
           /\ pc' = [pc EXCEPT ![t] = IF last THEN AfterLoop(f) ELSE "log_loop"]
           /\ ret' = [ret EXCEPT ![t] = IF last THEN Returned(f) ELSE @]
    /\ UNCHANGED <<environ, defaultCaps, prefix, loggers, heap, DefaultLogger, lock,
                   exited, exitCode, calls, concurrent, lastInit>>

\* Fatal: os.Exit(1) ends the process, every goroutine with it
Exit(t) ==
    /\ pc[t] = "exit"
    /\ ~exited
    /\ exited' = TRUE
    /\ exitCode' = ExitStatus
    /\ pc' = [pc EXCEPT ![t] = "exited"]
    /\ UNCHANGED <<environ, defaultCaps, prefix, loggers, heap, DefaultLogger, lock,
                   frame, out, ret, calls, concurrent, lastInit>>

\* GetLevelByString: the chain of comparisons, and the return
GlEval(t) ==
    /\ pc[t] = "gl_eval"
    /\ ~exited
    /\ ret' = [ret EXCEPT ![t] = [NoReturn EXCEPT !.level = GetLevelByString(frame[t].levelName)]]
    /\ pc' = [pc EXCEPT ![t] = "done"]
    /\ UNCHANGED <<environ, defaultCaps, prefix, loggers, heap, DefaultLogger, lock,
                   exited, exitCode, frame, out, calls, concurrent, lastInit>>

-----------------------------------------------------------------------------
(* Specifications *)

\* Every goroutine uses the registry and configures Loggers; the main goroutine
\* also logs.
Step(t) ==
    \/ CallNamespace(t)
    \/ CallSetPrefix(t)
    \/ CallAddHandler(t)
    \/ CallSetLevel(t)
    \/ t = MainThread /\ CallLog(t)
    \/ t = MainThread /\ CallWrite(t)
    \/ Lock(t)
    \/ NsLookup(t)
    \/ NsInit(t)
    \/ NsUnlock(t)
    \/ SpScan(t)
    \/ SpSet(t)
    \/ SpUnlock(t)
    \/ SpAssign(t)
    \/ AhRead(t)
    \/ AhWrite(t)
    \/ AhInit(t)
    \/ SlSet(t)
    \/ SlLoop(t)
    \/ LogGate(t)
    \/ LogLoop(t)
    \/ Exit(t)

\* Goroutines interleave.
Next == \E t \in Threads : Step(t)

\* One goroutine makes every call.
NextSeq == Step(MainThread)

Spec == Init /\ [][Next]_vars

SpecSeq == Init /\ [][NextSeq]_vars

\* The main goroutine only parses level names; GetLevelByString touches no
\* package state.
NextLevels == CallGetLevelByString(MainThread) \/ GlEval(MainThread)

SpecLevels == InitLevels /\ [][NextLevels]_vars

\* A goroutine inside Namespace or SetDefaultEnvironmentVariablePrefix takes
\* its next step.
Running(t) ==
    \/ Lock(t)
    \/ NsLookup(t)
    \/ NsInit(t)
    \/ NsUnlock(t)
    \/ SpScan(t)
    \/ SpSet(t)
    \/ SpUnlock(t)
    \/ SpAssign(t)

\* Goroutines that call only Namespace and SetDefaultEnvironmentVariablePrefix.
NextRegistry == \E t \in Threads : CallNamespace(t) \/ CallSetPrefix(t) \/ Running(t)

\* The scheduler runs every goroutine that can run, and a goroutine waiting in
\* loggersLock.Lock() gets the mutex when it is free again and again.
SpecRegistry ==
    /\ Init
    /\ [][NextRegistry]_vars
    /\ \A t \in Threads : WF_vars(Running(t)) /\ SF_vars(Lock(t))

-----------------------------------------------------------------------------
(* Properties *)

SetPrefixOp == "SetDefaultEnvironmentVariablePrefix"

\* The handlers of a list that have method m, in the order of the list.
Capable(hs, m) == SelectSeq(hs, LAMBDA h : Implements(h, m))

\* Error=1 < Warn=2 < Info=3 < Debug=4
SeverityTable(op) ==
    CASE op = "Error" -> 1 [] op = "Warn" -> 2 [] op = "Info" -> 3 [] op = "Debug" -> 4

\* The text each logging input formats to.
FormattedTable(format) ==
    IF format = <<"h","i">> THEN <<"h","i">> ELSE <<"n","=","x">>

\* A call of Debug, Info, Warn or Error has returned.
LogDone(t) == pc[t] = "done" /\ frame[t].op \in {"Debug", "Info", "Warn", "Error"}

\* The calls a dispatch of method m with message msg makes on the handlers hs.
FanOut(hs, m, msg) ==
    [i \in 1..Len(Capable(hs, m)) |-> MsgCall(Capable(hs, m)[i], m, msg)]

HasNonRootKey == \E k \in DOMAIN loggers : k # <<>>

\* C1: a call of Debug, Info, Warn or Error of severity S invokes the matching
\* method of the attached handlers that have it if and only if S <= the Logger's
\* level, and invokes no other method; at LevelNone nothing is invoked, at
\* LevelDebug every severity is dispatched.
LevelGating ==
    \A t \in Threads :
        LogDone(t) =>
            LET lg == heap[frame[t].self]
                op == frame[t].op
            IN  /\ (out[t] # <<>>) <=>
                       (SeverityTable(op) <= lg.Level /\ Capable(lg.Handlers, op) # <<>>)
                /\ \A i \in 1..Len(out[t]) : out[t][i].method = op
                /\ lg.Level = 0 => out[t] = <<>>
                /\ lg.Level = 4 => Len(out[t]) = Len(Capable(lg.Handlers, op))

\* A Warn call on a Logger at level Warn has reached two handlers.
LevelGatingWitness ==
    \E t \in Threads :
        /\ LogDone(t)
        /\ frame[t].op = "Warn"
        /\ heap[frame[t].self].Level = 2
        /\ Len(out[t]) = 2

\* C2 as stated: a Logger is constructed at most once per case-folded name, so no
\* two Logger objects ever exist for one case-folded name.
OneLoggerPerFoldedName ==
    \A l1, l2 \in Allocated :
        ToLower(heap[l1].Namespace) = ToLower(heap[l2].Namespace) => l1 = l2

\* C2 as amended: Namespace returns the registry's entry for the lower-cased name;
\* an entry, once made, is never replaced, and only the root entry is ever
\* removed, by a successful prefix change; a Logger is constructed only when the
\* registry has no entry for its lower-cased name, so at most once for a non-root
\* name, and for the root once per removal of the root entry.
NamespaceIdempotent ==
    /\ [](/\ \A l1, l2 \in Allocated :
                /\ ToLower(heap[l1].Namespace) = ToLower(heap[l2].Namespace)
                /\ heap[l1].Namespace # <<>>
                => l1 = l2
          /\ \A t \in Threads :
                pc[t] = "ns_unlock" =>
                    /\ ToLower(frame[t].name) \in DOMAIN loggers
                    /\ ret[t].logger = loggers[ToLower(frame[t].name)]
                    /\ ToLower(heap[ret[t].logger].Namespace) = ToLower(frame[t].name))
    /\ [][/\ \A k \in DOMAIN loggers :
                \/ k \in DOMAIN loggers' /\ loggers'[k] = loggers[k]
                \/ /\ k = <<>>
                   /\ \E t \in Threads : pc[t] = "sp_set" /\ pc'[t] = "sp_unlock"
          /\ Len(heap') # Len(heap) =>
                /\ Len(heap') = Len(heap) + 1
                /\ ToLower(heap'[Len(heap')].Namespace) \notin DOMAIN loggers]_vars

\* Two goroutines have asked for "a" and "A" and hold the same Logger.
NamespaceIdempotentWitness ==
    \E t1, t2 \in Threads :
        /\ t1 # t2
        /\ pc[t1] = "done" /\ frame[t1].op = "Namespace" /\ frame[t1].name = <<"a">>
        /\ pc[t2] = "done" /\ frame[t2].op = "Namespace" /\ frame[t2].name = <<"A">>
        /\ ret[t1].logger = ret[t2].logger
        /\ ret[t1].logger \in Allocated

\* C3: when the registry holds a non-root entry, a step of
\* SetDefaultEnvironmentVariablePrefix leaves the prefix, the registry, every
\* Logger and DefaultLogger as they are, and the call returns the error.
PrefixChangeRefused ==
    [][\A t \in Threads :
            /\ frame[t].op = SetPrefixOp
            /\ pc[t] \in {"sp_lock", "sp_scan", "sp_unlock"}
            /\ pc'[t] # pc[t]
            /\ HasNonRootKey
            => /\ UNCHANGED <<prefix, loggers, heap, DefaultLogger>>
               /\ pc'[t] \in {"sp_scan", "sp_unlock", "done"}
               /\ pc'[t] \in {"sp_unlock", "done"} => ret'[t].err = ErrInUse]_vars

\* A prefix change has been refused, with a non-root Logger in the registry.
PrefixChangeRefusedWitness ==
    \E t \in Threads :
        /\ frame[t].op = SetPrefixOp
        /\ pc[t] = "done"
        /\ ret[t].err = ErrInUse
        /\ HasNonRootKey

\* C4 as stated: every call of Fatal terminates the process, with a non-zero
\* status: Fatal never returns to its caller.
FatalAlwaysTerminates ==
    \A t \in Threads :
        frame[t].op = "Fatal" =>
            /\ pc[t] # "done"
            /\ pc[t] = "exited" => exited /\ exitCode # 0

\* C5: the prefix is assigned only in a state whose registry holds no non-root
\* entry, whatever the interleaving, and every non-root Logger of the registry had
\* its level resolved under the prefix now in effect.
PrefixFixedOnceInUse ==
    /\ [](\A k \in DOMAIN loggers :
            k # <<>> => heap[loggers[k]].resolvedPrefix = prefix)
    /\ [][prefix' # prefix => ~HasNonRootKey /\ ~(\E k \in DOMAIN loggers' : k # <<>>)]_vars

\* With two goroutines at work, the prefix was changed to APP and a non-root
\* Logger was then created under it.
PrefixFixedOnceInUseWitness ==
    /\ concurrent
    /\ prefix = APP
    /\ HasNonRootKey
    /\ \A k \in DOMAIN loggers : heap[loggers[k]].resolvedPrefix = APP

\* The level the root Logger gets under each environment and prefix.
RootLevelTable(env, p) ==
    CASE env = EnvOverrides /\ p = SEVERINO_LOGGER -> 2
      [] env = EnvOverrides /\ p = APP -> 3
      [] env = EnvQuiet /\ p = SEVERINO_LOGGER -> 0
      [] env = EnvQuiet /\ p = APP -> 1

\* C6: with no non-root entry in the registry, SetDefaultEnvironmentVariablePrefix(p)
\* returns no error; it removes the root entry and sets the prefix to p; the root
\* Logger then constructed has the level the variable named p gives, and
\* DefaultLogger is that Logger when the call returns.
PrefixChangeApplies ==
    \A t \in Threads :
        frame[t].op = SetPrefixOp =>
            /\ pc[t] = "sp_unlock" /\ ret[t].err = NoError =>
                   <<>> \notin DOMAIN loggers /\ prefix = frame[t].newPrefix
            /\ pc[t] = "done" => (ret[t].err = NoError <=> ~HasNonRootKey)
            /\ pc[t] = "done" /\ ret[t].err = NoError =>
                   /\ prefix = frame[t].newPrefix
                   /\ <<>> \in DOMAIN loggers
                   /\ loggers[<<>>] = DefaultLogger
                   /\ DefaultLogger = Len(heap)
                   /\ heap[DefaultLogger].Namespace = <<>>
                   /\ heap[DefaultLogger].Level = RootLevelTable(environ, frame[t].newPrefix)

\* With SEVERINO_LOGGER=warn and APP=bogus, the prefix was changed to APP and
\* DefaultLogger is a new root Logger at level Info.
PrefixChangeAppliesWitness ==
    \E t \in Threads :
        /\ frame[t].op = SetPrefixOp
        /\ pc[t] = "done"
        /\ ret[t].err = NoError
        /\ environ = EnvOverrides
        /\ prefix = APP
        /\ DefaultLogger = 2
        /\ heap[DefaultLogger].Level = 3

\* C7: an accepted Debug, Info, Warn or Error call invokes the matching method
\* once on each attached handler that has it, in attachment order, each call
\* given the same formatted message; a handler without the method is skipped and
\* the handlers after it are still reached.
FanOutOrder ==
    \A t \in Threads :
        LogDone(t) /\ SeverityTable(frame[t].op) <= heap[frame[t].self].Level =>
            out[t] = FanOut(heap[frame[t].self].Handlers, frame[t].op,
                            FormattedTable(frame[t].format))

\* Warn reached the DefaultHandler and then the handler attached third, the
\* handler attached second having no Warn method.
FanOutOrderWitness ==
    \E t \in Threads :
        /\ LogDone(t)
        /\ frame[t].op = "Warn"
        /\ Len(heap[frame[t].self].Handlers) = 3
        /\ heap[frame[t].self].Handlers[2] = InitInfoFatalSink
        /\ Len(out[t]) = 2
        /\ out[t][1].h.type = "DefaultHandler"
        /\ out[t][2].h = DebugWarnErrorSink
        /\ out[t][1].msg = <<"n","=","x">>
        /\ out[t][2].msg = <<"n","=","x">>

\* C8: SetLevel(L) leaves the Logger at level L and invokes Init once on each
\* attached handler that has it, in attachment order, with the Logger's
\* namespace and L.
SetLevelReinit ==
    \A t \in Threads :
        pc[t] = "done" /\ frame[t].op = "SetLevel" =>
            LET lg == heap[frame[t].self]
                inits == Capable(lg.Handlers, "Init")
            IN  /\ lg.Level = frame[t].level
                /\ out[t] = [i \in 1..Len(inits) |->
                               InitCall(inits[i], lg.Namespace, frame[t].level)]

\* SetLevel on the Logger of "A" has invoked Init on two handlers.
SetLevelReinitWitness ==
    \E t \in Threads :
        /\ pc[t] = "done"
        /\ frame[t].op = "SetLevel"
        /\ Len(out[t]) = 2
        /\ out[t][2].h = InitInfoFatalSink
        /\ out[t][2].namespace = <<"A">>
        /\ out[t][2].level = frame[t].level

\* C9: Fatal invokes the Fatal method of the handlers that have it if and only if
\* the Logger's level is at least LevelError, once each and in attachment order;
\* these calls are over when the process terminates, and none is made after.
FatalDispatch ==
    /\ [](\A t \in Threads :
            frame[t].op = "Fatal" =>
                LET lg == heap[frame[t].self] IN
                /\ pc[t] = "done" => lg.Level < 1 /\ out[t] = <<>>
                /\ pc[t] \in {"exit", "exited"} =>
                       /\ lg.Level >= 1
                       /\ out[t] = FanOut(lg.Handlers, "Fatal", FormattedTable(frame[t].format))
                /\ pc[t] = "exited" => exited)
    /\ [][exited => UNCHANGED out]_vars

\* The process has terminated after Fatal reached two handlers.
FatalDispatchWitness ==
    \E t \in Threads :
        /\ frame[t].op = "Fatal"
        /\ pc[t] = "exited"
        /\ exited
        /\ Len(out[t]) = 2
        /\ out[t][2].h = InitInfoFatalSink

\* A payload with one trailing newline removed, when it ends with one.
OneNewlineRemoved(b) ==
    CASE b = <<"h","i","\n">> -> <<"h","i">>
      [] b = <<"h","i">> -> <<"h","i">>
      [] b = <<"h","i","\n","\n">> -> <<"h","i","\n">>

\* C10 as stated: Write(b) on a Logger at level Info or above makes one Info
\* dispatch, whose message is b with a single trailing newline removed.
WriteTrimsOneNewline ==
    \A t \in Threads :
        /\ pc[t] = "done"
        /\ frame[t].op = "Write"
        /\ heap[frame[t].self].Level >= 3
        => out[t] = FanOut(heap[frame[t].self].Handlers, "Info",
                           OneNewlineRemoved(frame[t].bytes))

\* C11: AddHandler(h) leaves the Logger's handlers as they were with h added at
\* the end, and its level and namespace as they were; it invokes Init on h once,
\* with the Logger's namespace and level, when h has Init, and invokes nothing
\* else; no other Logger changes.
AddHandlerFrame ==
    /\ [](\A t \in Threads :
            pc[t] = "done" /\ frame[t].op = "AddHandler" =>
                LET lg == heap[frame[t].self]
                    h == frame[t].handler
                IN  /\ lg.Handlers[Len(lg.Handlers)] = h
                    /\ out[t] = IF h = InitInfoFatalSink
                                THEN <<InitCall(h, lg.Namespace, lg.Level)>>
                                ELSE <<>>)
    /\ [][\A t \in Threads :
            pc[t] \in {"ah_read", "ah_write", "ah_init"} /\ pc'[t] # pc[t] =>
                LET l == frame[t].self
                    n == Len(heap[l].Handlers)
                IN  /\ heap'[l].Level = heap[l].Level
                    /\ heap'[l].Namespace = heap[l].Namespace
                    /\ Len(heap'[l].Handlers) = (IF pc[t] = "ah_write" THEN n + 1 ELSE n)
                    /\ SubSeq(heap'[l].Handlers, 1, n) = heap[l].Handlers
                    /\ \A k \in Allocated : k # l => heap'[k] = heap[k]
                    /\ \A i \in 1..Len(out'[t]) :
                            out'[t][i].method = "Init" /\ out'[t][i].h = frame[t].handler]_vars

\* A handler with Init was attached third to the Logger of "a", whose level had
\* been resolved to Debug, and received Init("a", Debug).
AddHandlerFrameWitness ==
    \E t \in Threads :
        /\ pc[t] = "done"
        /\ frame[t].op = "AddHandler"
        /\ heap[frame[t].self].Handlers =
               <<NewDefaultHandler(frame[t].self), DebugWarnErrorSink, InitInfoFatalSink>>
        /\ out[t] = <<InitCall(InitInfoFatalSink, <<"a">>, 4)>>

\* The level each environment names for a namespace under a prefix: the value of
\* PREFIX_NAMESPACE when it is set, else the value of PREFIX; a value that names
\* no level counts as Info.
EnvLevelTable(env, p, namespace) ==
    CASE env = EnvOverrides /\ p = SEVERINO_LOGGER ->
            (CASE namespace = <<>> -> 2
               [] namespace = <<"a">> -> 4
               [] namespace = <<"A">> -> 4
               [] namespace = <<"b","-","c">> -> 2)
      [] env = EnvOverrides /\ p = APP ->
            (CASE namespace = <<>> -> 3
               [] namespace = <<"a">> -> 3
               [] namespace = <<"A">> -> 3
               [] namespace = <<"b","-","c">> -> 0)
      [] env = EnvQuiet /\ p = SEVERINO_LOGGER ->
            (CASE namespace = <<>> -> 0
               [] namespace = <<"a">> -> 0
               [] namespace = <<"A">> -> 0
               [] namespace = <<"b","-","c">> -> 3)
      [] env = EnvQuiet /\ p = APP ->
            (CASE namespace = <<>> -> 1
               [] namespace = <<"a">> -> 4
               [] namespace = <<"A">> -> 4
               [] namespace = <<"b","-","c">> -> 1)

\* C12: a Logger newly created for namespace N under prefix P has the level named
\* by the variable P_N (N upper-cased, '-' and '.' replaced by '_') when that
\* variable is set, else the level named by the variable P; for the empty
\* namespace, the level named by P.  The root Logger of package initialisation
\* is created under the initial prefix.
EnvPrecedence ==
    /\ heap[1].Level = EnvLevelTable(environ, SEVERINO_LOGGER, <<>>)
    /\ [][Len(heap') > Len(heap) =>
            LET lg == heap'[Len(heap')]
            IN  lg.Level = EnvLevelTable(environ, prefix, lg.Namespace)]_vars

\* With SEVERINO_LOGGER=none and SEVERINO_LOGGER_B_C=bogus, Namespace("b-c") has
\* returned a new Logger whose level is Info: the specific value won, though it
\* names no level.
EnvPrecedenceWitness ==
    \E t \in Threads :
        /\ pc[t] = "done"
        /\ frame[t].op = "Namespace"
        /\ frame[t].name = <<"b","-","c">>
        /\ environ = EnvQuiet
        /\ prefix = SEVERINO_LOGGER
        /\ ret[t].logger = Len(heap)
        /\ heap[ret[t].logger].Level = 3
        /\ calls = 1

\* The level each level name stands for; a name that is none of the five,
\* whatever its case, stands for Info.
LevelNameTable(name) ==
    CASE name \in {<<"d","e","b","u","g">>, <<"D","E","B","U","G">>} -> 4
      [] name \in {<<"i","n","f","o">>, <<"I","n","f","o">>} -> 3
      [] name \in {<<"w","a","r","n">>, <<"W","a","R","n">>} -> 2
      [] name \in {<<"e","r","r","o","r">>, <<"E","R","R","O","R">>} -> 1
      [] name \in {<<"n","o","n","e">>, <<"n","O","n","E">>} -> 0
      [] OTHER -> 3

\* C13: GetLevelByString returns a level for every string: the level named, in
\* any case, by "debug", "info", "warn", "error" or "none", and Info for every
\* other string, the empty one included; so the root Logger made at package
\* initialisation has level Info when the prefix variable is unset or names no
\* level.
LevelByStringTotal ==
    /\ \A t \in Threads :
            pc[t] = "done" /\ frame[t].op = "GetLevelByString" =>
                /\ ret[t].level \in 0..4
                /\ ret[t].level = LevelNameTable(frame[t].levelName)
                /\ ret[t].err = NoError
    /\ environ \in {EnvUnset, EnvUnknown} => heap[1].Level = 3
    /\ environ = EnvOverrides => heap[1].Level = 2
    /\ environ = EnvQuiet => heap[1].Level = 0

\* With no prefix variable set the root Logger is at Info, and
\* GetLevelByString("trace") has returned Info.
LevelByStringTotalWitness ==
    \E t \in Threads :
        /\ pc[t] = "done"
        /\ frame[t].op = "GetLevelByString"
        /\ frame[t].levelName = <<"t","r","a","c","e">>
        /\ ret[t].level = 3
        /\ environ = EnvUnset
        /\ heap[1].Level = 3

\* C14 as stated: no handler method runs in a goroutine that holds the registry
\* lock; in particular none runs inside the critical section of Namespace.
NoCallbackUnderLock ==
    \A t \in Threads : lock = t => out[t] = <<>>

\* C14 as amended: the lock is held only by a goroutine inside Namespace or
\* inside the prefix change, between its Lock and its Unlock; a goroutine that
\* formats a message, dispatches it, or runs AddHandler or SetLevel for its
\* caller does not hold it; the one handler method that runs under the lock is
\* the Init of the DefaultHandler of the Logger that Namespace is constructing.
LockHeldOnlyInRegistry ==
    \A t \in Threads :
        /\ lock = t =>
              /\ frame[t].op \in {"Namespace", SetPrefixOp}
              /\ pc[t] \in {"ns_lookup", "ns_init", "ns_unlock",
                             "sp_scan", "sp_set", "sp_unlock"}
              /\ Len(out[t]) <= 1
              /\ \A i \in 1..Len(out[t]) :
                    /\ out[t][i].method = "Init"
                    /\ out[t][i].h = [type |-> "DefaultHandler", inst |-> Len(heap)]
                    /\ ret[t].logger = Len(heap)
        /\ pc[t] \in {"ah_read", "ah_write", "ah_init", "sl_set", "sl_loop",
                       "log_gate", "log_loop", "exit", "done", "idle"} => lock # t

\* A goroutine inside Namespace holds the lock after the Init of the new
\* Logger's DefaultHandler has run, while another goroutine, without the lock,
\* is in SetLevel's loop over the handlers.
LockHeldOnlyInRegistryWitness ==
    \E t1, t2 \in Threads :
        /\ lock = t1
        /\ pc[t1] = "ns_unlock"
        /\ Len(out[t1]) = 1
        /\ out[t1][1].method = "Init"
        /\ pc[t2] = "sl_loop"

\* C15 as stated: in every state DefaultLogger is the registry's entry for the
\* root namespace "".
FacadeIsRegistryRoot ==
    /\ <<>> \in DOMAIN loggers
    /\ loggers[<<>>] = DefaultLogger

\* The Loggers a handler is attached to.
AttachedTo(h) ==
    {l \in Allocated : \E i \in 1..Len(heap[l].Handlers) : heap[l].Handlers[i] = h}

\* The handler objects that have Init.
InitCapable ==
    {InitInfoFatalSink}
    \cup (IF "Init" \in defaultCaps
          THEN {[type |-> "DefaultHandler", inst |-> l] : l \in Allocated}
          ELSE {})

\* C16: between the calls one goroutine makes, every handler that has Init and
\* is attached to exactly one Logger last received Init with that Logger's
\* namespace and that Logger's current level.
HandlersInSync ==
    (\A t \in Threads : pc[t] \in {"idle", "done"}) =>
        \A h \in InitCapable :
            \A l \in Allocated :
                AttachedTo(h) = {l} =>
                    /\ h \in DOMAIN lastInit
                    /\ lastInit[h].level = heap[l].Level
                    /\ lastInit[h].namespace = heap[l].Namespace

\* A handler attached to the Logger of "a" alone was told the level Error that
\* SetLevel then gave the Logger, whose level had been resolved to Debug.
HandlersInSyncWitness ==
    \E t \in Threads :
        /\ pc[t] = "done"
        /\ frame[t].op = "SetLevel"
        /\ environ = EnvOverrides
        /\ AttachedTo(InitInfoFatalSink) = {frame[t].self}
        /\ heap[frame[t].self].Namespace = <<"a">>
        /\ heap[frame[t].self].Level = 1
        /\ lastInit[InitInfoFatalSink] = [namespace |-> <<"a">>, level |-> 1]

\* C17: AddHandler reads the handler list and writes it back with no lock held;
\* its write leaves the list it read with its handler added at the end, so when
\* another goroutine has changed the list between the read and the write, the
\* write discards that change: the list is not the changed list with the
\* handler added.
AddHandlerNotAtomic ==
    /\ [](\A t \in Threads : pc[t] \in {"ah_read", "ah_write", "ah_init"} => lock # t)
    /\ [][\A t \in Threads :
            pc[t] = "ah_write" /\ pc'[t] # "ah_write" =>
                LET l == frame[t].self
                    before == heap[l].Handlers
                    after == heap'[l].Handlers
                IN  /\ Len(after) = Len(frame[t].hs) + 1
                    /\ after[Len(after)] = frame[t].handler
                    /\ SubSeq(after, 1, Len(after) - 1) = frame[t].hs
                    /\ before # frame[t].hs => after # before \o <<frame[t].handler>>]_vars

\* Two goroutines have each attached a handler to the root Logger and both
\* calls have returned; the list holds the DefaultHandler and one of the two
\* handlers, the other is missing.
AddHandlerNotAtomicWitness ==
    \E t1, t2 \in Threads :
        /\ t1 # t2
        /\ calls = 2
        /\ pc[t1] = "done" /\ frame[t1].op = "AddHandler"
        /\ pc[t2] = "done" /\ frame[t2].op = "AddHandler"
        /\ frame[t1].self = 1 /\ frame[t2].self = 1
        /\ frame[t1].handler # frame[t2].handler
        /\ heap[1].Handlers = <<[type |-> "DefaultHandler", inst |-> 1], frame[t2].handler>>

\* C18: a Logger made for a non-empty name is, from its insertion on, the
\* registry's entry for the lower-cased name in every later state: no step
\* removes or replaces a non-root entry, and the only entry a step removes is
\* the root entry, in a prefix change that succeeds.
RegistryMonotone ==
    /\ [](\A l \in Allocated :
            /\ heap[l].Namespace # <<>>
            /\ ~\E t \in Threads : pc[t] = "ns_init" /\ frame[t].self = l
            => /\ ToLower(heap[l].Namespace) \in DOMAIN loggers
               /\ loggers[ToLower(heap[l].Namespace)] = l)
    /\ [][/\ \A k \in DOMAIN loggers :
                k # <<>> => k \in DOMAIN loggers' /\ loggers'[k] = loggers[k]
          /\ DOMAIN loggers \ DOMAIN loggers' # {} =>
                /\ DOMAIN loggers \ DOMAIN loggers' = {<<>>}
                /\ \E t \in Threads :
                      /\ frame[t].op = SetPrefixOp
                      /\ pc[t] = "sp_set"
                      /\ ret'[t].err = NoError
                      /\ prefix' = frame[t].newPrefix]_vars

\* Namespace("A") has returned the Logger an earlier call made for "a", which
\* is still the registry's entry for "a".
RegistryMonotoneWitness ==
    \E t \in Threads :
        /\ pc[t] = "done"
        /\ frame[t].op = "Namespace"
        /\ frame[t].name = <<"A">>
        /\ ret[t].logger \in Allocated
        /\ heap[ret[t].logger].Namespace = <<"a">>
        /\ loggers[<<"a">>] = ret[t].logger

\* C19: when a successful SetDefaultEnvironmentVariablePrefix assigns
\* DefaultLogger, the Logger assigned is the one Namespace("") returned and the
\* registry's root entry, and is not the Logger DefaultLogger was before; its
\* only handler is its own DefaultHandler and its level is the one the new
\* prefix variable names; the previous root keeps its handlers and its level,
\* and is no entry of the registry.
RootReplaced ==
    [][\A t \in Threads :
            frame[t].op = SetPrefixOp /\ pc[t] = "sp_assign" /\ pc'[t] = "done" =>
                LET old == DefaultLogger
                    new == DefaultLogger'
                IN  /\ new # old
                    /\ new = ret[t].logger
                    /\ <<>> \in DOMAIN loggers' /\ loggers'[<<>>] = new
                    /\ heap'[new].Handlers = <<[type |-> "DefaultHandler", inst |-> new]>>
                    /\ heap'[new].Level = RootLevelTable(environ, frame[t].newPrefix)
                    /\ heap'[old] = heap[old]
                    /\ \A k \in DOMAIN loggers' : loggers'[k] # old]_vars

\* With SEVERINO_LOGGER=warn and APP=bogus: the first root Logger was given a
\* second handler and the level Debug; after the prefix change to APP the root
\* Logger is a second object with one handler and the level Info, and the first
\* still has its two handlers and the level Debug.
RootReplacedWitness ==
    \E t \in Threads :
        /\ frame[t].op = SetPrefixOp
        /\ pc[t] = "done"
        /\ ret[t].err = NoError
        /\ environ = EnvOverrides
        /\ Len(heap[1].Handlers) = 2
        /\ heap[1].Level = 4
        /\ DefaultLogger = 2
        /\ loggers[<<>>] = 2
        /\ Len(heap[2].Handlers) = 1
        /\ heap[2].Level = 3

\* C20: with goroutines calling Namespace and SetDefaultEnvironmentVariablePrefix
\* under fair scheduling, every call returns; a goroutine that has returned
\* does not hold the lock, and a goroutine about to lock does not hold it.
RegistryDeadlockFree ==
    /\ [](\A t \in Threads : pc[t] \in {"idle", "done", "sp_assign"} => lock # t)
    /\ [](\A t \in Threads : pc[t] \in {"ns_lock", "sp_lock"} => lock # t)
    /\ \A t \in Threads : (pc[t] \notin {"idle", "done"}) ~> (pc[t] = "done")

\* A prefix change and a Namespace("a") made by two goroutines have both
\* returned, the prefix change having succeeded before the Logger of "a" was
\* made, and the lock is free.
RegistryDeadlockFreeWitness ==
    \E t1, t2 \in Threads :
        /\ t1 # t2
        /\ pc[t1] = "done" /\ frame[t1].op = SetPrefixOp /\ ret[t1].err = NoError
        /\ pc[t2] = "done" /\ frame[t2].op = "Namespace" /\ frame[t2].name = <<"a">>
        /\ ret[t2].logger = 3
        /\ lock = NoThread

====
